---- MODULE Spec2Model ----
(***************************************************************************)
(* IDDB_Wrapper (src/src/iddb-wrapper.js): a wrapper object over one       *)
(* IndexedDB database.  The model holds the storage engine (the database, *)
(* its object stores, every connection handle, the queue of open requests *)
(* and the queue of transactions), the private fields of the wrapper      *)
(* (#db, #activeTable, #tables) and the asynchronous calls in flight.     *)
(*                                                                         *)
(* A step of the model is one run-to-completion piece of JavaScript: the  *)
(* synchronous part of a call, the continuation of an await on a promise  *)
(* that was already resolved (a microtask), or one engine callback        *)
(* together with the continuations it resolves.                            *)
(***************************************************************************)
EXTENDS Integers, Sequences, FiniteSets, TLC

VARIABLES
    dbVersion,    \* engine: version of the database, 0 while it does not exist
    stores,       \* engine: object store name -> [recs, gen]
    conns,        \* engine: every handle opened so far, [stores, version, closed]
    openQ,        \* engine: open requests not yet served, oldest first (task ids)
    txQ,          \* engine: transactions not yet run, oldest first (task ids)
    db,           \* #db: a handle (index in conns) or 0 for null
    activeTable,  \* #activeTable: a store name or NoTable for null
    tables,       \* #tables: store name -> handle captured by the cached closures
    tasks,        \* the asynchronous calls in flight
    calls,        \* number of calls made on the wrapper so far
    last,         \* how the latest settled call ended
    prev,         \* which call settled before that one, and how
    exported,     \* the JSON text produced by the latest export
    written,      \* history: what the transactions run so far stored, per store
    assigned,     \* history: the keys add() assigned so far, per store, oldest first
    snapshot,     \* history: the records of every store when that export read them
    history,      \* history: the kinds of call made on this wrapper so far
    crossed       \* history: a call was made while a call on another store was in flight

vars == <<dbVersion, stores, conns, openQ, txQ, db, activeTable, tables, tasks,
          calls, last, prev, exported, written, assigned, snapshot, history,
          crossed>>

(***************************************************************************)
(* Bounds of the model.                                                    *)
(***************************************************************************)
MaxCalls == 3
MaxOverlapCalls == 2
MaxInFlight == 2

Tables == {"A", "B"}
TableOrder == <<"A", "B">>
NoTable == "null"
Vals == {"a", "b"}

(***************************************************************************)
(* Keys.  A key is a number, a Date or a string; set() also receives      *)
(* undefined and null.  A string is held by its rank in StringRank, the   *)
(* strings the model uses in lexicographic order.                          *)
(***************************************************************************)
StrEmpty == 0
StrISO == 1
StrAuto == 2
Num(n) == [kind |-> "number", val |-> n]
Date(n) == [kind |-> "date", val |-> n]
Str(c) == [kind |-> "string", val |-> c]
Undefined == [kind |-> "undefined", val |-> 0]
Null == [kind |-> "null", val |-> 0]

\* Date.prototype.toJSON: the one Date of the model and its ISO text.
toISOString(d) == StrISO

KindRank(k) ==
    CASE k.kind = "number" -> 1
      [] k.kind = "date" -> 2
      [] k.kind = "string" -> 3
      [] OTHER -> 0

\* The engine's key comparison: number < Date < string, then by value.
KeyLess(a, b) ==
    \/ KindRank(a) < KindRank(b)
    \/ KindRank(a) = KindRank(b) /\ a.val < b.val

ValidKey(k) == KindRank(k) > 0

AutoKeys == {Str(StrAuto), Null, Undefined, Str(StrEmpty)}
ExplicitKeys == {Num(1), Date(1)}
SetKeys == AutoKeys \cup ExplicitKeys
ReadKeys == {Num(1), Num(2), Date(1)}

(***************************************************************************)
(* The engine's object stores.  A store holds its records (recs: key ->    *)
(* value) and its key generator (gen: the next key add() assigns).  Every  *)
(* store of the wrapper is created with { autoIncrement: true } and no     *)
(* key path.                                                               *)
(***************************************************************************)
NoRecs == [k \in {} |-> "a"]
NewStore == [recs |-> NoRecs, gen |-> 1]

RecsPut(recs, key, value) ==
    [k \in (DOMAIN recs) \cup {key} |-> IF k = key THEN value ELSE recs[k]]

RecsDelete(recs, key) == [k \in (DOMAIN recs) \ {key} |-> recs[k]]

\* IDBObjectStore.add(value) with no key: the generator's key, which must be new.
StoreAdd(st, value) ==
    LET key == Num(st.gen) IN
    IF key \in DOMAIN st.recs
    THEN [ok |-> FALSE, key |-> key, store |-> st]
    ELSE [ok |-> TRUE, key |-> key,
          store |-> [recs |-> RecsPut(st.recs, key, value), gen |-> st.gen + 1]]

\* IDBObjectStore.put(value, key): create or overwrite; a numeric key at or
\* above the generator moves the generator past it.
StorePut(st, value, key) ==
    [ok |-> TRUE, key |-> key,
     store |-> [recs |-> RecsPut(st.recs, key, value),
                gen |-> IF key.kind = "number" /\ key.val >= st.gen
                        THEN key.val + 1 ELSE st.gen]]

\* IDBObjectStore.get(key): the value, or undefined when there is no record.
StoreGet(st, key) == IF key \in DOMAIN st.recs THEN st.recs[key] ELSE "undefined"

StoreDelete(st, key) == [st EXCEPT !.recs = RecsDelete(st.recs, key)]

\* IDBObjectStore.clear(): the records go, the key generator stays.
StoreClear(st) == [st EXCEPT !.recs = NoRecs]

MinKey(S) == CHOOSE k \in S : \A j \in S : j = k \/ KeyLess(k, j)

RECURSIVE KeysAscending(_)
KeysAscending(S) ==
    IF S = {} THEN <<>>
    ELSE LET k == MinKey(S) IN <<k>> \o KeysAscending(S \ {k})

\* A cursor walk of the whole store: {key, value} in ascending key order.
CursorItems(recs) ==
    LET ks == KeysAscending(DOMAIN recs) IN
    [n \in 1..Len(ks) |-> [key |-> ks[n], value |-> recs[ks[n]]]]

(***************************************************************************)
(* The export envelope: store name -> array of {key, value}.               *)
(***************************************************************************)
NoEnv == [t \in {} |-> <<>>]

(***************************************************************************)
(* A call in flight.  pc is where it waits:                                *)
(*   micro    on an await whose promise was already resolved               *)
(*   open     on the request of indexedDB.open(name) in #openDBWithStore   *)
(*   upgrade  on the request of indexedDB.open(name, version + 1) there    *)
(*   dropUp   on the request of indexedDB.open(name, version + 1) in drop  *)
(*   expOpen  on the request of indexedDB.open(name) in export             *)
(*   txn, expTxn, impClear, impPut   on a transaction                      *)
(***************************************************************************)
IdleTask ==
    [pc |-> "idle", op |-> "none", table |-> NoTable, key |-> Undefined,
     val |-> "undefined", h |-> 0, ver |-> 0, cache |-> FALSE, parses |-> TRUE,
     data |-> NoEnv, todo |-> <<>>, acc |-> NoEnv, download |-> FALSE,
     wasFresh |-> FALSE]

NoResult == [rkey |-> Undefined, rval |-> "undefined", rall |-> <<>>, rnew |-> FALSE]

NoLast ==
    [op |-> "none", table |-> NoTable, key |-> Undefined, val |-> "undefined",
     parses |-> TRUE, data |-> NoEnv, h |-> 0, wasFresh |-> FALSE,
     status |-> "none",
     error |-> "", rkey |-> Undefined, rval |-> "undefined", rall |-> <<>>,
     rnew |-> FALSE]

NoPrev == [op |-> "none", table |-> NoTable, status |-> "none"]

TaskIds == 1..MaxInFlight
InFlight(ts) == {i \in DOMAIN ts : ts[i].pc # "idle"}

\* The whole state as one record, so that the code's call chains compose.
Cur ==
    [ver |-> dbVersion, stores |-> stores, conns |-> conns, openQ |-> openQ,
     txQ |-> txQ, db |-> db, active |-> activeTable, tables |-> tables,
     tasks |-> tasks, calls |-> calls, last |-> last, prev |-> prev,
     exported |-> exported, written |-> written, assigned |-> assigned,
     snapshot |-> snapshot, history |-> history, crossed |-> crossed]

Apply(s) ==
    /\ dbVersion' = s.ver
    /\ stores' = s.stores
    /\ conns' = s.conns
    /\ openQ' = s.openQ
    /\ txQ' = s.txQ
    /\ db' = s.db
    /\ activeTable' = s.active
    /\ tables' = s.tables
    /\ tasks' = s.tasks
    /\ calls' = s.calls
    /\ last' = s.last
    /\ prev' = s.prev
    /\ exported' = s.exported
    /\ written' = s.written
    /\ assigned' = s.assigned
    /\ snapshot' = s.snapshot
    /\ history' = s.history
    /\ crossed' = s.crossed

\* The promise of call i settles: resolve(result) or reject(error).
Settle(s, i, status, error, res) ==
    LET T == s.tasks[i] IN
    [s EXCEPT
       !.last = [op |-> T.op, table |-> T.table, key |-> T.key, val |-> T.val,
                 parses |-> T.parses, data |-> T.data, h |-> T.h,
                 wasFresh |-> T.wasFresh,
                 status |-> status, error |-> error, rkey |-> res.rkey,
                 rval |-> res.rval, rall |-> res.rall, rnew |-> res.rnew],
       !.prev = [op |-> s.last.op, table |-> s.last.table,
                 status |-> s.last.status],
       !.tasks[i] = IdleTask]

Resolve(s, i, res) == Settle(s, i, "resolved", "", res)
Reject(s, i, error) == Settle(s, i, "rejected", error, NoResult)

\* IDBDatabase.close(): the handle takes no new transaction from here on.
Close(s, h) == [s EXCEPT !.conns[h].closed = TRUE]

\* A handle is gone for the engine once closed with no transaction left on it.
AllClosed(s) ==
    \A h \in 1..Len(s.conns) :
        /\ s.conns[h].closed
        /\ \A n \in 1..Len(s.txQ) : s.tasks[s.txQ[n]].h # h

\* db.transaction(tableName, mode): throws on a closed handle and on a store
\* the handle does not hold; the throw rejects the promise of the call.
transaction(s, i, h, t, pc) ==
    LET s1 == [s EXCEPT !.tasks[i].h = h] IN
    IF s.conns[h].closed THEN Reject(s1, i, "InvalidStateError")
    ELSE IF t \notin s.conns[h].stores THEN Reject(s1, i, "NotFoundError")
    ELSE [s1 EXCEPT !.txQ = Append(@, i), !.tasks[i].pc = pc]

(***************************************************************************)
(* #openDBWithStore(tableName), its synchronous part: the fast path, or    *)
(* close the handle in hand and ask the engine to open the database.       *)
(***************************************************************************)
openDBWithStore(s, i, t) ==
    IF s.db # 0 /\ s.active = t
    THEN [s EXCEPT !.tasks[i].h = s.db, !.tasks[i].pc = "micro"]
    ELSE LET s1 == IF s.db # 0
                   THEN [Close(s, s.db) EXCEPT !.db = 0, !.active = NoTable]
                   ELSE s
         IN [s1 EXCEPT !.openQ = Append(@, i), !.tasks[i].pc = "open",
                       !.tasks[i].ver = 0]

\* #openTable(tableName), its synchronous part: the cached closures, which
\* hold the handle they were made with, or a connection to make them with.
openTable(s, i, t) ==
    IF t \in DOMAIN s.tables
    THEN [s EXCEPT !.tasks[i].h = s.tables[t], !.tasks[i].pc = "micro",
                   !.tasks[i].cache = FALSE]
    ELSE openDBWithStore([s EXCEPT !.tasks[i].cache = TRUE], i, t)

\* The rest of #openTable and of the closure of use(): the closures over db
\* enter the cache when they are new, then the operation opens its
\* transaction on the db of the closures.
table(s, i, h) ==
    LET T == s.tasks[i]
        s1 == IF T.cache
              THEN [s EXCEPT !.tables = [x \in (DOMAIN @) \cup {T.table} |->
                                            IF x = T.table THEN h ELSE @[x]]]
              ELSE s
    IN transaction(s1, i, h, T.table, "txn")

\* drop(tableName) from this.#db.close() on: close the handle in hand and ask
\* for the database at the version after it.
dropReopen(s, i) ==
    IF s.db = 0 THEN Reject(s, i, "TypeError")
    ELSE [Close(s, s.db) EXCEPT !.openQ = Append(@, i),
                                !.tasks[i].pc = "dropUp",
                                !.tasks[i].ver = s.conns[s.db].version + 1]

\* import, one store of the envelope: #clear(db, tableName) on the handle
\* #openDBWithStore gave.
importClear(s, i, h) ==
    transaction(s, i, h, s.tasks[i].table, "impClear")

\* The continuation of the await on #openDBWithStore, by caller.
opened(s, i, h) ==
    LET T == s.tasks[i] IN
    CASE T.op = "drop" -> dropReopen(s, i)
      [] T.op = "import" -> importClear(s, i, h)
      [] OTHER -> table(s, i, h)

(***************************************************************************)
(* The engine serves an open request and runs its handlers.                *)
(***************************************************************************)
\* The handle an open request succeeds with.
connect(s) ==
    [s EXCEPT !.conns = Append(@, [stores |-> DOMAIN s.stores,
                                   version |-> s.ver, closed |-> FALSE])]

createObjectStore(s, t) ==
    [s EXCEPT !.stores = [x \in (DOMAIN @) \cup {t} |->
                             IF x = t THEN NewStore ELSE @[x]]]

\* onupgradeneeded of drop with db.deleteObjectStore left out.
keepObjectStore(s, t) == s

deleteObjectStore(s, t) ==
    [s EXCEPT !.stores = [x \in (DOMAIN @) \ {t} |-> @[x]]]

\* The first open of #openDBWithStore asking for a new version on every
\* call, as indexedDB.open(name, version + 1) with the store declared when
\* it is missing would.
openOnSuccessBumping(s, i) ==
    LET t == s.tasks[i].table
        u == [s EXCEPT !.ver = @ + 1]
        s1 == IF t \notin DOMAIN u.stores THEN createObjectStore(u, t) ELSE u
        h == Len(s.conns) + 1
    IN opened([connect(s1) EXCEPT !.db = h, !.active = t], i, h)

\* The request of indexedDB.open(name) in #openDBWithStore.  The engine
\* creates the database at version 1 when it does not exist, and only then
\* runs onupgradeneeded; onsuccess keeps the handle and, when the store is
\* not in it, closes it and asks for the next version.
openOnSuccess(s, i) ==
    LET t == s.tasks[i].table
        s1 == IF s.ver = 0
              THEN LET u == [s EXCEPT !.ver = 1] IN
                   IF t \notin DOMAIN u.stores THEN createObjectStore(u, t) ELSE u
              ELSE s
        h == Len(s.conns) + 1
        s2 == [connect(s1) EXCEPT !.db = h, !.active = t]
    IN IF t \notin s2.conns[h].stores
       THEN [Close(s2, h) EXCEPT !.openQ = Append(@, i),
                                 !.tasks[i].pc = "upgrade",
                                 !.tasks[i].ver = s2.conns[h].version + 1]
       ELSE opened(s2, i, h)

\* The request of indexedDB.open(name, db.version + 1) in #openDBWithStore.
\* A version below the database's is a VersionError; the database's own
\* version opens it with no upgrade; createObjectStore of a store that
\* exists throws, which aborts the upgrade.  onerror is reject and no more.
upgradeOnSuccess(s, i) ==
    LET t == s.tasks[i].table
        v == s.tasks[i].ver
        h == Len(s.conns) + 1
    IN IF v < s.ver THEN Reject(s, i, "VersionError")
       ELSE IF v > s.ver /\ t \in DOMAIN s.stores THEN Reject(s, i, "AbortError")
       ELSE LET s1 == IF v > s.ver
                      THEN createObjectStore([s EXCEPT !.ver = v], t)
                      ELSE s
                s2 == [connect(s1) EXCEPT !.db = h, !.active = t]
            IN opened(s2, i, h)

\* The request of indexedDB.open(name, this.#db.version + 1) in drop: the
\* upgrade deletes the store when the database holds it; onsuccess keeps
\* the handle and forgets the cached closures of the table.
dropOnSuccess(s, i) ==
    LET t == s.tasks[i].table
        v == s.tasks[i].ver
        h == Len(s.conns) + 1
    IN IF v < s.ver THEN Reject(s, i, "VersionError")
       ELSE LET s1 == IF v > s.ver
                      THEN LET u == [s EXCEPT !.ver = v] IN
                           IF t \in DOMAIN u.stores THEN deleteObjectStore(u, t) ELSE u
                      ELSE s
                s2 == [connect(s1) EXCEPT
                         !.db = h,
                         !.tables = [x \in (DOMAIN @) \ {t} |-> @[x]],
                         !.written[t] = NoRecs,
                         !.assigned[t] = <<>>]
            IN Resolve(s2, i, NoResult)

(***************************************************************************)
(* The five table operations, from the request of each on: what the store  *)
(* does and what the promise settles with.                                 *)
(***************************************************************************)
isAuto(key) ==
    key = Str(StrAuto) \/ key = Null \/ key = Undefined \/ key = Str(StrEmpty)

set(s, i) ==
    LET T == s.tasks[i]
        r == IF isAuto(T.key)
             THEN StoreAdd(s.stores[T.table], T.val)
             ELSE StorePut(s.stores[T.table], T.val, T.key)
    IN IF r.ok
       THEN Resolve([s EXCEPT !.stores[T.table] = r.store,
                              !.written[T.table] = RecsPut(@, r.key, T.val),
                              !.assigned[T.table] = IF isAuto(T.key)
                                                    THEN Append(@, r.key.val)
                                                    ELSE @],
                    i, [NoResult EXCEPT
                          !.rkey = r.key,
                          !.rnew = r.key \notin DOMAIN s.stores[T.table].recs])
       ELSE Reject(s, i, "ConstraintError")

get(s, i) ==
    LET T == s.tasks[i] IN
    Resolve(s, i, [NoResult EXCEPT !.rval = StoreGet(s.stores[T.table], T.key)])

getAll(s, i) ==
    LET T == s.tasks[i] IN
    Resolve(s, i, [NoResult EXCEPT !.rall = CursorItems(s.stores[T.table].recs)])

delete(s, i) ==
    LET T == s.tasks[i] IN
    Resolve([s EXCEPT !.stores[T.table] = StoreDelete(@, T.key),
                      !.written[T.table] = RecsDelete(@, T.key)],
            i, [NoResult EXCEPT !.rval = "true"])

clear(s, i) ==
    LET T == s.tasks[i] IN
    Resolve([s EXCEPT !.stores[T.table] = StoreClear(@),
                      !.written[T.table] = NoRecs],
            i, [NoResult EXCEPT !.rval = "true"])

txnOnSuccess(s, i) ==
    LET T == s.tasks[i] IN
    CASE T.op = "set" -> set(s, i)
      [] T.op = "get" -> get(s, i)
      [] T.op = "getAll" -> getAll(s, i)
      [] T.op = "delete" -> delete(s, i)
      [] OTHER -> clear(s, i)

(***************************************************************************)
(* export and import.                                                      *)
(***************************************************************************)
\* The names of a set of stores in the order of objectStoreNames.
Sorted(names) == SelectSeq(TableOrder, LAMBDA t : t \in names)

\* #replaceBlobsWithBase64 and #restoreBlobsFromBase64 on the values of the
\* model, plain strings that are neither Blobs nor "__BLOB__:" texts.
replaceBlobsWithBase64(value) == value
restoreBlobsFromBase64(value) == value

\* What JSON.stringify makes of a key, as JSON.parse reads it back: numbers
\* and strings as they are, a Date as the string of its toJSON().
JSONKey(k) == IF k.kind = "date" THEN Str(toISOString(k.val)) ELSE k

\* JSON.stringify(exportData): a text that parses to data.
JSONstringify(env) ==
    [parses |-> TRUE,
     data |-> [t \in DOMAIN env |->
                 [n \in 1..Len(env[t]) |->
                    [key |-> JSONKey(env[t][n].key), value |-> env[t][n].value]]]]

\* export from the for loop on: a transaction per store, then close and
\* stringify.
exportNext(s, i) ==
    LET T == s.tasks[i] IN
    IF T.todo = <<>>
    THEN Resolve([Close(s, T.h) EXCEPT !.exported = <<JSONstringify(T.acc)>>],
                 i, [NoResult EXCEPT
                       !.rval = IF T.download THEN "undefined" ELSE "jsonString"])
    ELSE transaction([s EXCEPT !.tasks[i].table = Head(T.todo)],
                     i, T.h, Head(T.todo), "expTxn")

\* The request of indexedDB.open(name) in export, which has no
\* onupgradeneeded: a database that does not exist is created with no store.
exportOnSuccess(s, i) ==
    LET s1 == IF s.ver = 0 THEN [s EXCEPT !.ver = 1] ELSE s
        h == Len(s.conns) + 1
        s2 == [connect(s1) EXCEPT !.tasks[i].h = h,
                                  !.tasks[i].todo = Sorted(DOMAIN s1.stores),
                                  !.snapshot = NoEnv]
    IN exportNext(s2, i)

\* The cursor of export over one store.
exportCursor(s, i) ==
    LET T == s.tasks[i]
        t == Head(T.todo)
        items == CursorItems(s.stores[t].recs)
        processed == [n \in 1..Len(items) |->
                        [key |-> items[n].key,
                         value |-> replaceBlobsWithBase64(items[n].value)]]
        s1 == [s EXCEPT
                 !.tasks[i].acc = [x \in (DOMAIN @) \cup {t} |->
                                     IF x = t THEN processed ELSE @[x]],
                 !.tasks[i].todo = Tail(@),
                 !.snapshot = [x \in (DOMAIN @) \cup {t} |->
                                 IF x = t THEN s.stores[t].recs ELSE @[x]]]
    IN exportNext(s1, i)

\* import with the await on #clear left out: the records in the store stay.
importWithoutClear(s, i) ==
    transaction(s, i, s.tasks[i].h, s.tasks[i].table, "impPut")

\* import after #clear: the second transaction and its put requests.
importClearOnSuccess(s, i) ==
    LET T == s.tasks[i]
        s1 == [s EXCEPT !.stores[T.table] = StoreClear(@),
                        !.written[T.table] = NoRecs]
    IN transaction(s1, i, T.h, T.table, "impPut")

RECURSIVE PutAll(_, _)
PutAll(st, items) ==
    IF items = <<>> THEN st
    ELSE PutAll(StorePut(st, restoreBlobsFromBase64(Head(items).value),
                         Head(items).key).store,
                Tail(items))

RECURSIVE RecsOf(_)
RecsOf(items) ==
    IF items = <<>> THEN NoRecs
    ELSE LET n == Len(items) IN
         RecsPut(RecsOf(SubSeq(items, 1, n - 1)), items[n].key, items[n].value)

\* import once the write transaction is complete: close the handle, forget
\* it, and go on to the next store of the envelope.
importComplete(s, i) ==
    LET T == s.tasks[i]
        items == T.data[T.table]
        s1 == [Close(s, T.h) EXCEPT
                 !.stores[T.table] = PutAll(@, items),
                 !.written[T.table] = RecsOf(items),
                 !.db = 0,
                 !.tasks[i].todo = Tail(@)]
        rest == Tail(T.todo)
    IN IF rest = <<>> THEN Resolve(s1, i, NoResult)
       ELSE openDBWithStore([s1 EXCEPT !.tasks[i].table = Head(rest)],
                            i, Head(rest))

(***************************************************************************)
(* The state after new IDDB_Wrapper(dbName), on a database that does not   *)
(* exist yet.                                                              *)
(***************************************************************************)
NoStores == [t \in {} |-> NewStore]
NoTables == [t \in {} |-> 0]

Constructed ==
    [ver |-> 0, stores |-> NoStores, conns |-> <<>>, openQ |-> <<>>,
     txQ |-> <<>>, db |-> 0, active |-> NoTable, tables |-> NoTables,
     tasks |-> [i \in TaskIds |-> IdleTask], calls |-> 0, last |-> NoLast,
     prev |-> NoPrev, exported |-> <<>>, written |-> [t \in Tables |-> NoRecs],
     assigned |-> [t \in Tables |-> <<>>], snapshot |-> NoEnv, history |-> {},
     crossed |-> FALSE]

Init ==
    /\ dbVersion = Constructed.ver
    /\ stores = Constructed.stores
    /\ conns = Constructed.conns
    /\ openQ = Constructed.openQ
    /\ txQ = Constructed.txQ
    /\ db = Constructed.db
    /\ activeTable = Constructed.active
    /\ tables = Constructed.tables
    /\ tasks = Constructed.tasks
    /\ calls = Constructed.calls
    /\ last = Constructed.last
    /\ prev = Constructed.prev
    /\ exported = Constructed.exported
    /\ written = Constructed.written
    /\ assigned = Constructed.assigned
    /\ snapshot = Constructed.snapshot
    /\ history = Constructed.history
    /\ crossed = Constructed.crossed

(***************************************************************************)
(* The caller.  A call is made either once every earlier call has settled  *)
(* (overlap = FALSE: each call awaited) or while others are in flight.     *)
(***************************************************************************)
MayCall(overlap) ==
    IF overlap
    THEN calls < MaxOverlapCalls /\ Cardinality(InFlight(tasks)) < MaxInFlight
    ELSE calls < MaxCalls /\ InFlight(tasks) = {}

Slot == CHOOSE i \in TaskIds : tasks[i].pc = "idle" /\
                               \A j \in TaskIds : tasks[j].pc = "idle" => i <= j

Kind(op) == IF op \in {"drop", "export", "import"} THEN op ELSE "use"

Begin(op, t, k, v) ==
    [Cur EXCEPT !.calls = @ + 1,
                !.history = @ \cup {Kind(op)},
                !.crossed = @ \/ \E j \in InFlight(tasks) : tasks[j].table # t,
                !.tasks[Slot] = [IdleTask EXCEPT !.pc = "call", !.op = op,
                                                 !.table = t, !.key = k, !.val = v,
                                                 !.wasFresh = (history = {})]]

KeysFor(overlap, keys) == IF overlap THEN keys \cap {Num(1), Str(StrAuto)} ELSE keys
ValsFor(overlap) == IF overlap THEN {"a"} ELSE Vals

\* use(tableName).set(key, value)
UseSet(overlap) ==
    /\ MayCall(overlap)
    /\ \E t \in Tables, k \in KeysFor(overlap, SetKeys), v \in ValsFor(overlap) :
           Apply(openTable(Begin("set", t, k, v), Slot, t))

\* use(tableName).get(key)
UseGet(overlap) ==
    /\ MayCall(overlap)
    /\ \E t \in Tables, k \in KeysFor(overlap, ReadKeys) :
           Apply(openTable(Begin("get", t, k, "undefined"), Slot, t))

\* use(tableName).delete(key)
UseDelete(overlap) ==
    /\ MayCall(overlap)
    /\ \E t \in Tables, k \in KeysFor(overlap, ReadKeys) :
           Apply(openTable(Begin("delete", t, k, "undefined"), Slot, t))

\* use(tableName).getAll()
UseGetAll(overlap) ==
    /\ MayCall(overlap)
    /\ \E t \in Tables :
           Apply(openTable(Begin("getAll", t, Undefined, "undefined"), Slot, t))

\* use(tableName).clear()
UseClear(overlap) ==
    /\ MayCall(overlap)
    /\ \E t \in Tables :
           Apply(openTable(Begin("clear", t, Undefined, "undefined"), Slot, t))

\* drop(tableName), up to its first wait.
Drop(overlap) ==
    /\ MayCall(overlap)
    /\ \E t \in Tables :
           LET s == Begin("drop", t, Undefined, "undefined") IN
           Apply(IF s.db = 0 THEN openDBWithStore(s, Slot, t)
                 ELSE dropReopen(s, Slot))

\* export(config), up to the open request.
Export(overlap) ==
    /\ MayCall(overlap)
    /\ \E download \in BOOLEAN :
           LET s == Begin("export", NoTable, Undefined, "undefined") IN
           Apply([s EXCEPT !.openQ = Append(@, Slot),
                           !.tasks[Slot].pc = "expOpen",
                           !.tasks[Slot].download = download])

\* The JSON texts given to import: one that does not parse, the text of the
\* latest export, and a text written by hand.
Unparsable == [parses |-> FALSE, data |-> NoEnv]
Handwritten ==
    JSONstringify("A" :> <<[key |-> Num(1), value |-> "b"]>> @@ "B" :> <<>>)
\* The text of the README's example: one store, one record.
backupJson == JSONstringify("A" :> <<[key |-> Num(1), value |-> "b"]>>)
ImportTexts ==
    {Unparsable, Handwritten, backupJson} \cup {exported[n] : n \in 1..Len(exported)}

\* import with the try around JSON.parse left out: a text that does not
\* parse is taken for an envelope with no store.
ImportUnchecked(overlap) ==
    /\ MayCall(overlap)
    /\ \E text \in ImportTexts :
           LET s0 == Begin("import", NoTable, Undefined, "undefined")
               names == Sorted(DOMAIN text.data)
               s == [s0 EXCEPT !.tasks[Slot].parses = text.parses,
                               !.tasks[Slot].data = text.data,
                               !.tasks[Slot].todo = names]
           IN Apply(IF names = <<>> THEN Resolve(s, Slot, NoResult)
                    ELSE openDBWithStore([s EXCEPT !.tasks[Slot].table = Head(names)],
                                         Slot, Head(names)))

\* import(jsonString), up to its first wait.
Import(overlap) ==
    /\ MayCall(overlap)
    /\ \E text \in ImportTexts :
           LET s0 == Begin("import", NoTable, Undefined, "undefined")
               names == Sorted(DOMAIN text.data)
               s == [s0 EXCEPT !.tasks[Slot].parses = text.parses,
                               !.tasks[Slot].data = text.data,
                               !.tasks[Slot].todo = names]
           IN Apply(IF ~text.parses THEN Reject(s, Slot, "Invalid JSON format")
                    ELSE IF names = <<>> THEN Resolve(s, Slot, NoResult)
                    ELSE openDBWithStore([s EXCEPT !.tasks[Slot].table = Head(names)],
                                         Slot, Head(names)))

\* new IDDB_Wrapper(dbName) on another database name, once an export is at
\* hand: the wrapper and the database start over, the exported text stays.
Construct ==
    /\ InFlight(tasks) = {}
    /\ exported # <<>>
    /\ history # {}
    /\ Apply([Constructed EXCEPT !.calls = calls, !.exported = exported,
                                 !.snapshot = snapshot])

(***************************************************************************)
(* The event loop.  Microtasks run before the engine's next callback.      *)
(***************************************************************************)
NoMicrotask == \A j \in TaskIds : tasks[j].pc # "micro"

Microtask ==
    \E i \in TaskIds :
        /\ tasks[i].pc = "micro"
        /\ Apply(opened(Cur, i, tasks[i].h))

\* An open request that changes the version waits until no handle is open.
NeedsUpgrade(i) ==
    IF tasks[i].pc \in {"open", "expOpen"} THEN dbVersion = 0
    ELSE tasks[i].ver > dbVersion

ServeOpen ==
    /\ NoMicrotask
    /\ openQ # <<>>
    /\ LET i == Head(openQ)
           s == [Cur EXCEPT !.openQ = Tail(@)]
       IN /\ NeedsUpgrade(i) => AllClosed(Cur)
          /\ Apply(CASE tasks[i].pc = "open" -> openOnSuccess(s, i)
                     [] tasks[i].pc = "upgrade" -> upgradeOnSuccess(s, i)
                     [] tasks[i].pc = "dropUp" -> dropOnSuccess(s, i)
                     [] OTHER -> exportOnSuccess(s, i))

ServeTransaction ==
    /\ NoMicrotask
    /\ txQ # <<>>
    /\ LET i == Head(txQ)
           s == [Cur EXCEPT !.txQ = Tail(@)]
       IN Apply(CASE tasks[i].pc = "txn" -> txnOnSuccess(s, i)
                  [] tasks[i].pc = "expTxn" -> exportCursor(s, i)
                  [] tasks[i].pc = "impClear" -> importClearOnSuccess(s, i)
                  [] OTHER -> importComplete(s, i))

Engine == Microtask \/ ServeOpen \/ ServeTransaction

Calls(overlap) ==
    \/ UseSet(overlap)
    \/ UseGet(overlap)
    \/ UseDelete(overlap)
    \/ UseGetAll(overlap)
    \/ UseClear(overlap)
    \/ Drop(overlap)
    \/ Export(overlap)
    \/ Import(overlap)
    \/ Construct

\* Every call awaited before the next.
Next == Calls(FALSE) \/ Engine
Spec == Init /\ [][Next]_vars

\* The engine fails the oldest open request (no room for the upgrade, a
\* storage error): its onerror runs, which in #openDBWithStore, drop and
\* export alike is reject and nothing else.
FailOpen ==
    /\ NoMicrotask
    /\ openQ # <<>>
    /\ Apply(Reject([Cur EXCEPT !.openQ = Tail(@)], Head(openQ), "UnknownError"))

\* Every call awaited, on an engine whose open requests may fail.
NextFail == Next \/ FailOpen
SpecFail == Init /\ [][NextFail]_vars

\* Calls made without awaiting one another, and an engine that serves every
\* request it can serve.
NextOverlap == Calls(TRUE) \/ Engine
SpecOverlap == Init /\ [][NextOverlap]_vars /\ WF_vars(Engine)

(***************************************************************************)
(* Properties.                                                             *)
(***************************************************************************)
FacadeOps == {"set", "get", "delete", "getAll", "clear"}
Settled == last.status # "none"
OnlyUse == history \subseteq {"use"}
Pairs(recs) == {<<k, recs[k]>> : k \in DOMAIN recs}
AsRecords(items) == {<<items[n].key, items[n].value>> : n \in 1..Len(items)}
ValueAt(recs, key) == IF key \in DOMAIN recs THEN recs[key] ELSE "undefined"

\* C1: with every call awaited and only table operations made, once records
\* were written to a table and an operation on another table has settled,
\* a get or getAll on the first table resolves, and returns what was written.
C1_RecordsSurviveStoreSwitch ==
    (/\ OnlyUse
     /\ last.op \in {"get", "getAll"}
     /\ Settled
     /\ prev.op \in FacadeOps
     /\ prev.table # last.table
     /\ written[last.table] # NoRecs)
    => /\ last.status = "resolved"
       /\ last.op = "get" => last.rval = ValueAt(written[last.table], last.key)
       /\ last.op = "getAll" => /\ AsRecords(last.rall) = Pairs(written[last.table])
                                /\ Len(last.rall) = Cardinality(DOMAIN written[last.table])

\* C2: the table operation that follows a resolved drop(X), on X, resolves
\* and finds X empty: getAll returns no record, get returns undefined.
C2_DropThenUseIsEmpty ==
    (/\ last.op \in FacadeOps
     /\ Settled
     /\ prev.op = "drop"
     /\ prev.status = "resolved"
     /\ prev.table = last.table)
    => /\ last.status = "resolved"
       /\ last.op = "getAll" => last.rall = <<>>
       /\ last.op = "get" => last.rval = "undefined"

\* C3: after table operations and drops, each awaited, no table operation
\* asks a closed handle for its transaction.
C3_NeverOnClosedHandle ==
    (/\ history \subseteq {"use", "drop"}
     /\ last.op \in FacadeOps
     /\ Settled)
    => last.error # "InvalidStateError"

\* Only table operations and drops were called, and no call was made while a
\* call on another store was in flight.
SameStoreOverlap == ~crossed /\ history \subseteq {"use", "drop"}

\* C4: every table operation and every drop settles, when calls overlap
\* only on one store and the engine serves every request it can serve.
C4_EveryCallSettles ==
    \A i \in TaskIds :
        (tasks[i].pc # "idle" /\ SameStoreOverlap) ~> (tasks[i].pc = "idle" \/ ~SameStoreOverlap)

\* C5: set(key, value) stores the value under a new key of the engine exactly
\* when key is undefined, null, "" or "auto", under key otherwise, and
\* returns the key the value is stored under.
C5_SetAutoOrExplicit ==
    (OnlyUse /\ last.op = "set" /\ Settled)
    => /\ last.status = "resolved"
       /\ ValueAt(stores[last.table].recs, last.rkey) = last.val
       /\ IF last.key \in {Undefined, Null, Str(StrEmpty), Str(StrAuto)}
          THEN last.rnew /\ last.rkey.kind = "number"
          ELSE last.rkey = last.key

\* C6: get(K) returns the value of the latest set(K, V) on the store, and
\* undefined for a key never written.
C6_GetReturnsWritten ==
    (OnlyUse /\ last.op = "get" /\ Settled)
    => /\ last.status = "resolved"
       /\ last.rval = ValueAt(written[last.table], last.key)

\* C7: a set with no key stores the value under a key that was not in the
\* table and is greater than every key assigned in it before; after set(1, a)
\* on an empty table the key is 2.
C7_AutoKeysIncrease ==
    (OnlyUse /\ last.op = "set" /\ last.key \in AutoKeys /\ Settled)
    => LET a == assigned[last.table] IN
       /\ last.status = "resolved"
       /\ last.rnew
       /\ a # <<>> /\ last.rkey = Num(a[Len(a)])
       /\ \A m, n \in 1..Len(a) : m < n => a[m] < a[n]
       /\ (/\ calls = 2
           /\ prev.op = "set" /\ prev.table = last.table
           /\ DOMAIN written[last.table] = {Num(1), last.rkey}
           /\ last.rkey # Num(1)) => last.rkey = Num(2)

\* C8: getAll returns every record of the store once, in ascending key
\* order, and nothing after clear.
C8_GetAllReturnsStore ==
    (OnlyUse /\ last.op = "getAll" /\ Settled)
    => /\ last.status = "resolved"
       /\ AsRecords(last.rall) = Pairs(written[last.table])
       /\ Len(last.rall) = Cardinality(DOMAIN written[last.table])
       /\ \A n \in 1..(Len(last.rall) - 1) :
              KeyLess(last.rall[n].key, last.rall[n + 1].key)
       /\ (prev.op = "clear" /\ prev.table = last.table /\ prev.status = "resolved")
              => last.rall = <<>>

\* C9: delete(K) resolves with true whether or not K is there, after it K is
\* not in the store, and every other record of every store is as it was.
C9_DeleteOnlyRemovesKey ==
    (OnlyUse /\ last.op = "delete" /\ Settled)
    => /\ last.status = "resolved"
       /\ last.rval = "true"
       /\ last.key \notin DOMAIN stores[last.table].recs
       /\ \A t \in DOMAIN stores : stores[t].recs = written[t]

\* C10: import of the text of an export, as the first call of a wrapper on
\* a new database, resolves and leaves every store that was exported with
\* the records it had when it was exported.
C10_ExportImportRoundTrip ==
    (/\ last.op = "import"
     /\ Settled
     /\ last.wasFresh
     /\ exported # <<>>
     /\ [parses |-> last.parses, data |-> last.data] = exported[1])
    => /\ last.status = "resolved"
       /\ \A t \in DOMAIN snapshot :
              t \in DOMAIN stores /\ stores[t].recs = snapshot[t]

Quiescent == InFlight(tasks) = {}

\* What import does to the stores its envelope does not name, step by step:
\* the call itself changes no store, and no step of an import in flight
\* changes a store outside its envelope.
ImportStep ==
    /\ (\E i \in TaskIds : tasks[i].pc = "idle" /\ tasks'[i].op = "import")
           => stores' = stores
    /\ \A i \in TaskIds :
           tasks[i].op = "import"
           => \A t \in (DOMAIN stores) \ (DOMAIN tasks[i].data) :
                  t \in DOMAIN stores' /\ stores'[t] = stores[t]

\* C11: once an import has resolved, every store its envelope names exists
\* and holds exactly the envelope's {key, value} pairs, whatever it held
\* before, and no step of the import changed a store the envelope does not
\* name.
C11_ImportReplacesNamedStores ==
    /\ [](/\ Quiescent
          /\ last.op = "import"
          /\ last.status = "resolved"
          => \A t \in DOMAIN last.data :
                 /\ t \in DOMAIN stores
                 /\ Pairs(stores[t].recs) = AsRecords(last.data[t]))
    /\ [][ImportStep]_vars

\* import of the README's text resolved right after a set on A, with
\* records in B: A holds the text's record only.
C11_Witness ==
    /\ Quiescent
    /\ last.op = "import" /\ last.status = "resolved"
    /\ DOMAIN last.data = {"A"}
    /\ prev.op = "set" /\ prev.table = "A" /\ prev.status = "resolved"
    /\ "B" \in DOMAIN stores /\ stores["B"].recs # NoRecs
    /\ DOMAIN stores["A"].recs = {Num(1)}

\* The step in which import is called with a text that does not parse: the
\* promise is rejected with the format error within the call, and neither
\* the engine nor the fields of the wrapper change.
UnparsableImportStep ==
    (/\ calls' = calls + 1
     /\ last' # last
     /\ last'.op = "import"
     /\ ~last'.parses)
    => /\ last'.status = "rejected"
       /\ last'.error = "Invalid JSON format"
       /\ UNCHANGED <<dbVersion, stores, conns, openQ, txQ, db, activeTable, tables>>

\* C12: import of a text that does not parse is rejected with the format
\* error before anything else happens: no import is ever in flight with
\* such a text, and the call leaves the database and #db, #activeTable and
\* #tables as they were.
C12_UnparsableImportChangesNothing ==
    /\ [](\A i \in TaskIds : tasks[i].op = "import" => tasks[i].parses)
    /\ [][UnparsableImportStep]_vars

\* import of a text that does not parse was rejected on a wrapper that holds
\* an open handle, cached closures and stored records.
C12_Witness ==
    /\ Quiescent
    /\ last.op = "import" /\ ~last.parses /\ last.status = "rejected"
    /\ db # 0 /\ ~conns[db].closed
    /\ activeTable \in Tables
    /\ tables # NoTables
    /\ \E t \in DOMAIN stores : stores[t].recs # NoRecs

\* Call i waits on the promise of #openDBWithStore, resolved on the fast
\* path with the handle tasks[i].h (the cached closures of #openTable wait the
\* same way, on no promise of #openDBWithStore).
FastPathResolved(i) ==
    /\ tasks[i].pc = "micro"
    /\ tasks[i].cache \/ tasks[i].op \in {"drop", "import"}

\* The step in which a request of #openDBWithStore succeeds with the store in
\* the handle, for call i: the handle is the newest one.  The continuation of
\* the caller runs in the same step, and only the one of drop closes it.
SlowPathResolved(i) ==
    /\ tasks[i].pc \in {"open", "upgrade"}
    /\ tasks'[i].pc \notin {"open", "upgrade"}
    /\ Len(conns') = Len(conns) + 1

HandleServes(cs, h, t) == ~cs[h].closed /\ t \in cs[h].stores

\* C13: the handle #openDBWithStore(t) resolves with is open, holds t, is
\* #db, and #activeTable is t, on the fast path and after a request alike.
C13_ResolvedHandleHoldsStore ==
    /\ [](\A i \in TaskIds :
             FastPathResolved(i)
             => /\ HandleServes(conns, tasks[i].h, tasks[i].table)
                /\ db = tasks[i].h
                /\ activeTable = tasks[i].table)
    /\ [][\A i \in TaskIds :
             SlowPathResolved(i)
             => LET h == Len(conns') IN
                /\ tasks[i].table \in conns'[h].stores
                /\ conns'[h].closed => tasks[i].op = "drop"
                /\ db' = h
                /\ activeTable' = tasks[i].table]_vars

\* The step in which the request call i waits on in #openDBWithStore fails:
\* the request leaves the queue and no handle comes of it.
OpenFailed(i) ==
    /\ tasks[i].pc \in {"open", "upgrade"}
    /\ openQ # <<>> /\ Head(openQ) = i
    /\ openQ' = Tail(openQ)
    /\ conns' = conns

\* C14: when the first or the second open request of #openDBWithStore fails,
\* the call is rejected and the wrapper is left with #db and #activeTable
\* null, so that the next call for the store opens the database again.
C14_FailedOpenLeavesNoHandle ==
    [][\A i \in TaskIds :
          OpenFailed(i)
          => /\ tasks'[i].pc = "idle"
             /\ last'.status = "rejected"
             /\ db' = 0
             /\ activeTable' = NoTable]_vars

OpenHandles(cs) == {h \in 1..Len(cs) : ~cs[h].closed}

\* C15: whatever the interleaving of table operations, drops and imports,
\* at most one handle opened by #openDBWithStore or drop is open, and #db
\* moves on from a handle only once that handle is closed.  (export opens a
\* handle of its own, which #db never holds.)
C15_AtMostOneOpenHandle ==
    /\ []("export" \notin history => Cardinality(OpenHandles(conns)) <= 1)
    /\ [][(/\ "export" \notin history'
           /\ db # 0
           /\ db' # db
           /\ db <= Len(conns')) => conns'[db].closed]_vars

\* The step is not new IDDB_Wrapper on another database.
SameDatabase == ~(history # {} /\ history' = {})

\* The engine serves a request of #openDBWithStore, of call i.
EnsureServed(i) ==
    /\ tasks[i].pc \in {"open", "upgrade"}
    /\ openQ # <<>> /\ Head(openQ) = i
    /\ openQ' # openQ

\* One step, as C16 wants it.
VersionStep ==
    /\ SameDatabase => dbVersion' >= dbVersion
    /\ (OnlyUse /\ dbVersion' > dbVersion)
          => \E i \in TaskIds :
                 /\ EnsureServed(i)
                 /\ tasks[i].table \notin DOMAIN stores
                 /\ tasks[i].table \in DOMAIN stores'
                 /\ dbVersion' = dbVersion + 1
    /\ \A i \in TaskIds :
          (EnsureServed(i) /\ tasks[i].table \in DOMAIN stores)
          => dbVersion' = dbVersion

\* C16: the version of the database never decreases; with table operations
\* only, it increases only where a request of #openDBWithStore is served
\* for a store the database does not hold, which the step creates; and no
\* request of #openDBWithStore for a store the database holds changes it.
C16_NoSpuriousVersionBump == [][VersionStep]_vars

\* A get on A that went through #openDBWithStore resolved after an import
\* that created A and then B: the handle is a new one, the version still 2.
C16_Witness ==
    /\ Quiescent
    /\ last.op = "get" /\ last.table = "A" /\ last.status = "resolved"
    /\ prev.op = "import" /\ prev.status = "resolved"
    /\ DOMAIN stores = {"A", "B"}
    /\ Len(conns) = 4 /\ last.h = 4
    /\ conns[4].version = 2
    /\ dbVersion = 2

\* What drop does to the stores it is not called for, step by step: the call
\* itself changes no store, and no step of a drop in flight adds, removes or
\* changes a store other than its own.
DropStep ==
    /\ (\E i \in TaskIds : tasks[i].pc = "idle" /\ tasks'[i].op = "drop")
           => stores' = stores
    /\ \A i \in TaskIds :
           tasks[i].op = "drop"
           => /\ (DOMAIN stores') \ {tasks[i].table} = (DOMAIN stores) \ {tasks[i].table}
              /\ \A t \in (DOMAIN stores) \ {tasks[i].table} : stores'[t] = stores[t]

\* C17: once drop(X) has resolved, the database has no store X and #tables
\* no entry for X, and no step of the drop added, removed or changed another
\* store: the stores are those there were, less X.
C17_DropRemovesOnlyItsStore ==
    /\ [](/\ Quiescent
          /\ last.op = "drop"
          /\ last.status = "resolved"
          => /\ last.table \notin DOMAIN stores
             /\ last.table \notin DOMAIN tables)
    /\ [][DropStep]_vars

\* drop(A) resolved after table operations that created A and B: B is there
\* with its records and its cached closures.
C17_Witness ==
    /\ Quiescent
    /\ last.op = "drop" /\ last.table = "A" /\ last.status = "resolved"
    /\ history = {"use", "drop"}
    /\ conns[1].stores = {"A"}
    /\ dbVersion = 3
    /\ DOMAIN stores = {"B"} /\ stores["B"].recs # NoRecs
    /\ DOMAIN tables = {"B"}

\* The two states of the wrapper's connection.
RegistryClosed == db = 0 /\ activeTable = NoTable
RegistryOpenForStore ==
    /\ db # 0
    /\ activeTable # NoTable
    /\ HandleServes(conns, db, activeTable)

\* C18: with no call in flight, after table operations, drops and imports
\* each awaited, either #db and #activeTable are both null, or #db is an
\* open handle that holds the store #activeTable names.
C18_ClosedOrOpenForStore ==
    (Quiescent /\ history \subseteq {"use", "drop", "import"})
    => RegistryClosed \/ RegistryOpenForStore

\* C19: with table operations and imports only, each awaited, a resolved
\* import leaves no cached closures on a closed handle, and the table
\* operation that follows it resolves and reads what the import and the
\* operation itself stored.
C19_ImportLeavesFacadeUsable ==
    /\ (/\ Quiescent
        /\ history \subseteq {"use", "import"}
        /\ last.op = "import"
        /\ last.status = "resolved")
       => \A t \in DOMAIN tables : ~conns[tables[t]].closed
    /\ (/\ history \subseteq {"use", "import"}
        /\ last.op \in FacadeOps
        /\ Settled
        /\ prev.op = "import"
        /\ prev.status = "resolved")
       => /\ last.status = "resolved"
          /\ last.op = "get" => last.rval = ValueAt(written[last.table], last.key)
          /\ last.op = "getAll" => AsRecords(last.rall) = Pairs(written[last.table])

\* A table operation that resolves does what C1 and C5 to C9 state: those
\* fail only by the rejection of an operation on a memoized closed handle.
ResolvedOperationsConform ==
    last.status = "resolved"
    => /\ C1_RecordsSurviveStoreSwitch
       /\ C5_SetAutoOrExplicit
       /\ C6_GetReturnsWritten
       /\ C7_AutoKeysIncrease
       /\ C8_GetAllReturnsStore
       /\ C9_DeleteOnlyRemovesKey

====
